---- MODULE Spec2Model ----
(***************************************************************************)
(* Monte Carlo Tree Search for tic-tac-toe (TicTacToe_MonteCarlo.py):      *)
(* make_comp_move and the functions it calls, as a state machine.          *)
(*                                                                         *)
(* Python objects are modelled by reference: `heap` holds the nested-list  *)
(* boards, `tree` holds the Node objects; a Node's game_state is an index  *)
(* into heap and its parent/children are indices into tree (0 is None).    *)
(* Node.wins is a float that only ever grows by 1 or 0.5; it is kept       *)
(* doubled in the integer field wins2 (wins2 = 2 * wins).                  *)
(* An empty cell, the string "X" of the source, is the value X == 0.       *)
(***************************************************************************)
EXTENDS Integers, Sequences, FiniteSets, TLC

VARIABLES
    state,          \* the board value the caller passed to make_comp_move
    num,            \* the human player's number passed to make_comp_move
    heap,           \* the live board objects (sequence of 3x3 boards)
    tree,           \* the Node objects, in creation order; tree[1] is root
    pc,             \* position inside make_comp_move
    num_iter,       \* loop variable of `for num_iter in range(...)`
    current,        \* local `current` of traverse / make_comp_move
    leaf,           \* the node rollout and back_propagate are called with
    sim,            \* rollout: heap index of current_game_state (0: none)
    player_num,     \* rollout: local player_num
    placed,         \* rollout: placements made by the running rollout
    rollout_result, \* value returned by the last rollout
    bp,             \* back_propagate: local `current` (0 is None)
    expanded,       \* tree indices that expand() was called on, in order
    rollouts,       \* number of rollout calls that returned
    backprops,      \* number of back_propagate calls that returned
    ret,            \* value returned by make_comp_move (<<row, col>>)
    err             \* exception that ended make_comp_move ("" if none)

vars == <<state, num, heap, tree, pc, num_iter, current, leaf, sim,
          player_num, placed, rollout_result, bp, expanded, rollouts,
          backprops, ret, err>>

-----------------------------------------------------------------------------
(* Bounds and constants *)

\* Iterations of the search loop; the source runs range(1000).
NumIter == 8

X == 0          \* an empty cell ("X" in the source)
Draw == -20     \* rollout's draw sentinel
None == 0       \* absent node reference
Root == 1       \* tree index of the root node
NoMove == <<-2, -2>>   \* ret before make_comp_move has returned

Idx == 0..2
Cells == Idx \X Idx
\* row-major order of the nested enumerate loops
CellOrder == <<  <<0,0>>, <<0,1>>, <<0,2>>,
                 <<1,0>>, <<1,1>>, <<1,2>>,
                 <<2,0>>, <<2,1>>, <<2,2>>  >>

\* A board from its nine cells in row-major order.
MkBoard(s) == [x \in Idx |-> [y \in Idx |-> s[3 * x + y + 1]]]

EmptyCells(b) == {c \in Cells : b[c[1]][c[2]] = X}

-----------------------------------------------------------------------------
(* Terminal-state oracle *)

check_for_win(game_board, player) ==
    \/ \E i \in Idx :
          \/ /\ game_board[i][0] = player
             /\ game_board[i][1] = player
             /\ game_board[i][2] = player
          \/ /\ game_board[0][i] = player
             /\ game_board[1][i] = player
             /\ game_board[2][i] = player
    \/ /\ game_board[0][0] = player
       /\ game_board[1][1] = player
       /\ game_board[2][2] = player
    \/ /\ game_board[0][2] = player
       /\ game_board[1][1] = player
       /\ game_board[2][0] = player

\* check_for_draw with its two answers exchanged
check_for_draw_inverted(game) == \E c \in Cells : game[c[1]][c[2]] = X

check_for_draw(game) == ~ \E c \in Cells : game[c[1]][c[2]] = X

-----------------------------------------------------------------------------
(* Search nodes *)

\* Node.__init__ that starts visits at 1
Node_visited(game, player, parent) ==
    [wins2 |-> 0, visits |-> 1, children |-> <<>>, parent |-> parent,
     game_state |-> game, player |-> player, is_end_state |-> FALSE]

\* Node.__init__: game is a reference to a board (an index into heap).
Node(game, player, parent) ==
    [wins2 |-> 0, visits |-> 0, children |-> <<>>, parent |-> parent,
     game_state |-> game, player |-> player, is_end_state |-> FALSE]

\* The board a node holds, read through its reference.
BoardOf(t, h, n) == h[t[n].game_state]

-----------------------------------------------------------------------------
(* Selection: UCB1 *)

\* floor(10^4 * log2(p)) for p = 1..16
Log2e4 == << 0, 10000, 15849, 20000, 23219, 25849, 28073, 30000,
             31699, 33219, 34594, 35849, 37004, 38073, 39068, 40000 >>

RECURSIVE ISqrtBetween(_, _, _)
\* the r in lo..hi with r*r <= n < (r+1)*(r+1), by bisection
ISqrtBetween(n, lo, hi) ==
    IF lo >= hi THEN lo
    ELSE LET mid == (lo + hi + 1) \div 2
         IN  IF mid * mid <= n THEN ISqrtBetween(n, mid, hi)
             ELSE ISqrtBetween(n, lo, mid - 1)

ISqrt(n) == ISqrtBetween(n, 0, 30000)

\* calculate_UCB1 raises ZeroDivisionError when the child has no visits and
\* ValueError (math.log2(0)) when its parent has none.
UCB1Defined(t, child) ==
    /\ t[child].visits # 0
    /\ t[child].parent # None
    /\ t[t[child].parent].visits > 0

\* calculate_UCB1 in fixed point, 10^4 * score rounded down term by term:
\* wins/visits + 1.4 * sqrt(log2(parent.visits) / visits).  For parent
\* visits up to 10 this orders any two children of one parent exactly as
\* the floating-point scores of the source do.
calculate_UCB1(t, child) ==
    LET num_wins2 == t[child].wins2
        num_visits == t[child].visits
        num_parent_visits == t[t[child].parent].visits
        exploitation == (num_wins2 * 10000) \div (2 * num_visits)
        exploration == ISqrt((Log2e4[num_parent_visits] * 10000) \div num_visits)
    IN  exploitation + (14 * exploration) \div 10

RECURSIVE max_UCB1_loop_last(_, _, _, _, _)
\* the loop of max_UCB1_index with >= for >: the last of the children
\* with the highest score wins
max_UCB1_loop_last(t, cur, i, index, max_UCB1) ==
    IF i > Len(t[cur].children) THEN index
    ELSE LET UCB1 == calculate_UCB1(t, t[cur].children[i])
         IN  IF UCB1 >= max_UCB1
             THEN max_UCB1_loop_last(t, cur, i + 1, i, UCB1)
             ELSE max_UCB1_loop_last(t, cur, i + 1, index, max_UCB1)

RECURSIVE max_UCB1_loop(_, _, _, _, _)
\* the for loop of max_UCB1_index, from position i on (positions are 1-based)
max_UCB1_loop(t, cur, i, index, max_UCB1) ==
    IF i > Len(t[cur].children) THEN index
    ELSE LET UCB1 == calculate_UCB1(t, t[cur].children[i])
         IN  IF UCB1 > max_UCB1
             THEN max_UCB1_loop(t, cur, i + 1, i, UCB1)
             ELSE max_UCB1_loop(t, cur, i + 1, index, max_UCB1)

\* position in cur.children (1-based) of the child with the highest score
max_UCB1_index(t, cur) ==
    max_UCB1_loop(t, cur, 1, 1, calculate_UCB1(t, t[cur].children[1]))

\* the last child of cur without visits instead of the first
FirstUnvisited_last(t, cur) ==
    LET zero == {i \in 1..Len(t[cur].children) :
                    t[t[cur].children[i]].visits = 0}
    IN  IF zero = {} THEN None
        ELSE t[cur].children[CHOOSE i \in zero : \A j \in zero : i >= j]

\* first child of cur, in child order, that has no visits (0 if none)
FirstUnvisited(t, cur) ==
    LET zero == {i \in 1..Len(t[cur].children) :
                    t[t[cur].children[i]].visits = 0}
    IN  IF zero = {} THEN None
        ELSE t[cur].children[CHOOSE i \in zero : \A j \in zero : i <= j]

-----------------------------------------------------------------------------
(* Expansion *)

RECURSIVE expand_loop_keep_mover(_, _, _, _, _)
\* expand that gives the children the mover of their parent
expand_loop_keep_mover(t, h, cur, cgs, k) ==
    IF k > Len(CellOrder) THEN [tree |-> t, heap |-> h]
    ELSE LET x == CellOrder[k][1]
             y == CellOrder[k][2]
         IN  IF cgs[x][y] = X
             THEN LET pn == t[cur].player
                      h1 == Append(h, cgs)
                      game == Len(h1)
                      h2 == [h1 EXCEPT ![game][x][y] = pn]
                      child == [Node(game, pn, cur) EXCEPT
                                  !.is_end_state =
                                      \/ check_for_draw(h2[game])
                                      \/ check_for_win(h2[game], pn)]
                      t1 == Append(t, child)
                      t2 == [t1 EXCEPT ![cur].children = Append(@, Len(t1))]
                  IN  expand_loop_keep_mover(t2, h2, cur, cgs, k + 1)
             ELSE expand_loop_keep_mover(t, h, cur, cgs, k + 1)

RECURSIVE expand_loop(_, _, _, _, _)
\* the nested enumerate loops of expand from the k-th cell on;
\* cgs is the local deep copy current_game_state, which is only read.
expand_loop(t, h, cur, cgs, k) ==
    IF k > Len(CellOrder) THEN [tree |-> t, heap |-> h]
    ELSE LET x == CellOrder[k][1]
             y == CellOrder[k][2]
         IN  IF cgs[x][y] = X
             THEN LET pn == IF t[cur].player = 2 THEN 1 ELSE 2
                      h1 == Append(h, cgs)
                      game == Len(h1)
                      h2 == [h1 EXCEPT ![game][x][y] = pn]
                      child == [Node(game, pn, cur) EXCEPT
                                  !.is_end_state =
                                      \/ check_for_draw(h2[game])
                                      \/ check_for_win(h2[game], pn)]
                      t1 == Append(t, child)
                      t2 == [t1 EXCEPT ![cur].children = Append(@, Len(t1))]
                  IN  expand_loop(t2, h2, cur, cgs, k + 1)
             ELSE expand_loop(t, h, cur, cgs, k + 1)

\* expand(current): the tree and heap after the call
expand(t, h, cur) == expand_loop(t, h, cur, BoardOf(t, h, cur), 1)

-----------------------------------------------------------------------------
(* Backpropagation and decision *)

\* back_propagate whose draw branch forgets visits += 1
credit_draw_no_visit(n, result) ==
    IF result = Draw
    THEN [n EXCEPT !.wins2 = @ + 1]
    ELSE IF n.player = result
         THEN [n EXCEPT !.wins2 = @ + 2, !.visits = @ + 1]
         ELSE [n EXCEPT !.visits = @ + 1]

\* back_propagate whose last branch (a win of the other player) forgets
\* visits += 1
credit_loss_no_visit(n, result) ==
    IF result = Draw
    THEN [n EXCEPT !.wins2 = @ + 1, !.visits = @ + 1]
    ELSE IF n.player = result
         THEN [n EXCEPT !.wins2 = @ + 2, !.visits = @ + 1]
         ELSE n

\* one pass of the while loop of back_propagate over node n
credit(n, result) ==
    IF result = Draw
    THEN [n EXCEPT !.wins2 = @ + 1, !.visits = @ + 1]
    ELSE IF n.player = result
         THEN [n EXCEPT !.wins2 = @ + 2, !.visits = @ + 1]
         ELSE [n EXCEPT !.visits = @ + 1]

RECURSIVE calc_highest_visits_last(_, _, _, _, _)
\* the loop of calc_highest_visits with >= for >: the last of the most
\* visited children wins
calc_highest_visits_last(t, node, i, index, highest_visits) ==
    IF i > Len(t[node].children) THEN index
    ELSE IF t[t[node].children[i]].visits >= highest_visits
         THEN calc_highest_visits_last(t, node, i + 1, i,
                                       t[t[node].children[i]].visits)
         ELSE calc_highest_visits_last(t, node, i + 1, index, highest_visits)

RECURSIVE calc_highest_visits_loop(_, _, _, _, _)
calc_highest_visits_loop(t, node, i, index, highest_visits) ==
    IF i > Len(t[node].children) THEN index
    ELSE IF t[t[node].children[i]].visits > highest_visits
         THEN calc_highest_visits_loop(t, node, i + 1, i,
                                       t[t[node].children[i]].visits)
         ELSE calc_highest_visits_loop(t, node, i + 1, index, highest_visits)

\* calc_highest_visits that returns the board of node itself
calc_highest_visits_own(t, node) == t[node].game_state

\* the game_state reference of the most visited child of node
calc_highest_visits(t, node) ==
    LET index == calc_highest_visits_loop(t, node, 1, 1,
                                          t[t[node].children[1]].visits)
    IN  t[t[node].children[index]].game_state

\* find_comp_move that returns column and row the wrong way round
find_comp_move_swapped(game_state, comp_move_state) ==
    LET diff == {k \in 1..Len(CellOrder) :
                    game_state[CellOrder[k][1]][CellOrder[k][2]]
                      # comp_move_state[CellOrder[k][1]][CellOrder[k][2]]}
    IN  IF diff = {} THEN <<-1, -1>>
        ELSE LET c == CellOrder[CHOOSE k \in diff : \A j \in diff : k <= j]
             IN  <<c[2], c[1]>>

\* first cell, row-major, where the two boards differ; <<-1, -1>> if none
find_comp_move(game_state, comp_move_state) ==
    LET diff == {k \in 1..Len(CellOrder) :
                    game_state[CellOrder[k][1]][CellOrder[k][2]]
                      # comp_move_state[CellOrder[k][1]][CellOrder[k][2]]}
    IN  IF diff = {} THEN <<-1, -1>>
        ELSE CellOrder[CHOOSE k \in diff : \A j \in diff : k <= j]

-----------------------------------------------------------------------------
(* Simulation *)

\* rollout working on the caller's board object instead of a copy
rollout_alias(h, ref) == [heap |-> h, ref |-> ref]

\* copy.deepcopy(game_state) in rollout: a new board object with the same
\* cells; the result names the heap and the reference of the copy
rollout_copy(h, ref) == [heap |-> Append(h, h[ref]), ref |-> Len(h) + 1]

\* the while condition of rollout without its draw test
rollout_continues_no_draw(b, p) == ~ check_for_win(b, p)

\* the while condition of rollout
rollout_continues(b, p) == ~ check_for_win(b, p) /\ ~ check_for_draw(b)

\* rollout testing for a draw before it tests for a win
rollout_return_value_draw_first(b, p) ==
    IF check_for_draw(b) THEN Draw
    ELSE IF check_for_win(b, p) THEN p
    ELSE None

\* the value rollout returns for its final board (0 models a missing return)
rollout_return_value(b, p) ==
    IF check_for_win(b, p) THEN p
    ELSE IF check_for_draw(b) THEN Draw
    ELSE None

\* a board object is released when rollout returns unless a node holds it
release(h, t, ref) ==
    IF \E n \in DOMAIN t : t[n].game_state = ref THEN h
    ELSE SubSeq(h, 1, Len(h) - 1)

-----------------------------------------------------------------------------
(* Inputs of make_comp_move *)

\* full boards: a draw, and a board whose diagonal belongs to player 1
BaseBoards == { MkBoard(<<1, 2, 1,
                          1, 2, 2,
                          2, 1, 1>>),
                MkBoard(<<1, 2, 2,
                          2, 1, 1,
                          1, 2, 1>>) }

\* cells that may be empty in an input board
ClearCells == { <<0,0>>, <<0,2>>, <<1,0>>, <<1,1>>, <<2,1>> }

Clear(b, S) ==
    [x \in Idx |-> [y \in Idx |-> IF <<x, y>> \in S THEN X ELSE b[x][y]]]

InputBoards == { Clear(b, S) : b \in BaseBoards, S \in SUBSET ClearCells }

-----------------------------------------------------------------------------
(* make_comp_move *)

Init ==
    /\ state \in InputBoards
    /\ num \in {1, 2}
    /\ heap = <<state>>
    /\ tree = <<Node(1, num, None)>>
    /\ pc = "for"
    /\ num_iter = 0
    /\ current = Root
    /\ leaf = None
    /\ sim = 0
    /\ player_num = 0
    /\ placed = 0
    /\ rollout_result = None
    /\ bp = None
    /\ expanded = <<>>
    /\ rollouts = 0
    /\ backprops = 0
    /\ ret = NoMove
    /\ err = ""

\* for num_iter in range(NumIter): enter the next iteration or leave the loop
for_loop ==
    /\ pc = "for"
    /\ IF num_iter < NumIter
       THEN /\ current' = Root
            /\ pc' = "traverse"
       ELSE /\ pc' = "decide"
            /\ UNCHANGED current
    /\ UNCHANGED <<state, num, heap, tree, num_iter, leaf, sim, player_num,
                   placed, rollout_result, bp, expanded, rollouts, backprops,
                   ret, err>>

\* traverse that returns the node itself instead of descending into the
\* child with the highest score
traverse_shallow ==
    /\ pc = "traverse"
    /\ IF tree[current].children = <<>>
       THEN /\ pc' = "selected"
            /\ UNCHANGED <<current, err>>
       ELSE IF FirstUnvisited(tree, current) # None
       THEN /\ current' = FirstUnvisited(tree, current)
            /\ pc' = "selected"
            /\ UNCHANGED err
       ELSE /\ pc' = "selected"
            /\ UNCHANGED <<current, err>>
    /\ UNCHANGED <<state, num, heap, tree, num_iter, leaf, sim, player_num,
                   placed, rollout_result, bp, expanded, rollouts, backprops,
                   ret>>

\* traverse without the branch that prefers a child with no visits
traverse_no_unvisited ==
    /\ pc = "traverse"
    /\ IF tree[current].children = <<>>
       THEN /\ pc' = "selected"
            /\ UNCHANGED <<current, err>>
       ELSE IF \A i \in 1..Len(tree[current].children) :
                   UCB1Defined(tree, tree[current].children[i])
       THEN /\ current' = tree[current].children[max_UCB1_index(tree, current)]
            /\ UNCHANGED <<pc, err>>
       ELSE /\ err' = "ArithmeticError"
            /\ pc' = "error"
            /\ UNCHANGED current
    /\ UNCHANGED <<state, num, heap, tree, num_iter, leaf, sim, player_num,
                   placed, rollout_result, bp, expanded, rollouts, backprops,
                   ret>>

\* one call level of traverse(current)
traverse ==
    /\ pc = "traverse"
    /\ IF tree[current].children = <<>>
       THEN /\ pc' = "selected"
            /\ UNCHANGED <<current, err>>
       ELSE IF FirstUnvisited(tree, current) # None
       THEN /\ current' = FirstUnvisited(tree, current)
            /\ pc' = "selected"
            /\ UNCHANGED err
       ELSE IF \A i \in 1..Len(tree[current].children) :
                   UCB1Defined(tree, tree[current].children[i])
       THEN /\ current' = tree[current].children[max_UCB1_index(tree, current)]
            /\ UNCHANGED <<pc, err>>
       ELSE /\ err' = "ArithmeticError"
            /\ pc' = "error"
            /\ UNCHANGED current
    /\ UNCHANGED <<state, num, heap, tree, num_iter, leaf, sim, player_num,
                   placed, rollout_result, bp, expanded, rollouts, backprops,
                   ret>>

\* rollout is entered for node n with heap h
begin_rollout(h, n) ==
    LET c == rollout_copy(h, tree'[n].game_state)
    IN  /\ heap' = c.heap
        /\ sim' = c.ref
        /\ player_num' = tree'[n].player
        /\ placed' = 0
        /\ leaf' = n
        /\ pc' = "rollout"

\* line 329, first branch: simulate from the selected node itself
simulate ==
    /\ pc = "selected"
    /\ tree[current].visits = 0 \/ tree[current].is_end_state
    /\ tree' = tree
    /\ begin_rollout(heap, current)
    /\ UNCHANGED <<state, num, num_iter, current, rollout_result, bp,
                   expanded, rollouts, backprops, ret, err>>

\* the else branch simulating the last child, children[-1]
expand_and_simulate_last ==
    /\ pc = "selected"
    /\ ~ (tree[current].visits = 0 \/ tree[current].is_end_state)
    /\ LET e == expand(tree, heap, current)
       IN  /\ tree' = e.tree
           /\ expanded' = Append(expanded, current)
           /\ IF e.tree[current].children = <<>>
              THEN /\ heap' = e.heap
                   /\ err' = "IndexError"
                   /\ pc' = "error"
                   /\ UNCHANGED <<sim, player_num, placed, leaf>>
              ELSE /\ begin_rollout(e.heap,
                         e.tree[current].children[Len(e.tree[current].children)])
                   /\ UNCHANGED err
    /\ UNCHANGED <<state, num, num_iter, current, rollout_result, bp,
                   rollouts, backprops, ret>>

\* the else branch simulating and crediting the expanded node itself
expand_and_simulate_parent ==
    /\ pc = "selected"
    /\ ~ (tree[current].visits = 0 \/ tree[current].is_end_state)
    /\ LET e == expand(tree, heap, current)
       IN  /\ tree' = e.tree
           /\ expanded' = Append(expanded, current)
           /\ IF e.tree[current].children = <<>>
              THEN /\ heap' = e.heap
                   /\ err' = "IndexError"
                   /\ pc' = "error"
                   /\ UNCHANGED <<sim, player_num, placed, leaf>>
              ELSE /\ begin_rollout(e.heap, current)
                   /\ UNCHANGED err
    /\ UNCHANGED <<state, num, num_iter, current, rollout_result, bp,
                   rollouts, backprops, ret>>

\* line 329, else branch: expand the selected node, simulate its first child
expand_and_simulate ==
    /\ pc = "selected"
    /\ ~ (tree[current].visits = 0 \/ tree[current].is_end_state)
    /\ LET e == expand(tree, heap, current)
       IN  /\ tree' = e.tree
           /\ expanded' = Append(expanded, current)
           /\ IF e.tree[current].children = <<>>
              THEN /\ heap' = e.heap
                   /\ err' = "IndexError"
                   /\ pc' = "error"
                   /\ UNCHANGED <<sim, player_num, placed, leaf>>
              ELSE /\ begin_rollout(e.heap, e.tree[current].children[1])
                   /\ UNCHANGED err
    /\ UNCHANGED <<state, num, num_iter, current, rollout_result, bp,
                   rollouts, backprops, ret>>

\* one pass of the outer while loop of rollout: draw cells until an empty
\* one comes up, flip the mover, occupy the cell
rollout_place ==
    /\ pc = "rollout"
    /\ rollout_continues(heap[sim], player_num)
    /\ \E rand_row \in Idx, rand_col \in Idx :
          IF heap[sim][rand_row][rand_col] # X
          THEN UNCHANGED <<heap, player_num, placed>>
          ELSE LET p == IF player_num = 1 THEN 2 ELSE 1
               IN  /\ player_num' = p
                   /\ heap' = [heap EXCEPT ![sim][rand_row][rand_col] = p]
                   /\ placed' = placed + 1
    /\ UNCHANGED <<state, num, tree, pc, num_iter, current, leaf, sim,
                   rollout_result, bp, expanded, rollouts, backprops, ret, err>>

\* rollout leaves its loop and returns
rollout_return ==
    /\ pc = "rollout"
    /\ ~ rollout_continues(heap[sim], player_num)
    /\ rollout_result' = rollout_return_value(heap[sim], player_num)
    /\ heap' = release(heap, tree, sim)
    /\ sim' = 0
    /\ rollouts' = rollouts + 1
    /\ bp' = leaf
    /\ pc' = "backprop"
    /\ UNCHANGED <<state, num, tree, num_iter, current, leaf, player_num,
                   placed, expanded, backprops, ret, err>>

\* back_propagate with the loop test `current.parent != None`: it stops
\* below the root
back_propagate_below_root ==
    /\ pc = "backprop"
    /\ IF bp # None /\ tree[bp].parent # None
       THEN /\ tree' = [tree EXCEPT ![bp] = credit(@, rollout_result)]
            /\ bp' = tree[bp].parent
            /\ UNCHANGED <<pc, num_iter, backprops>>
       ELSE /\ backprops' = backprops + 1
            /\ num_iter' = num_iter + 1
            /\ pc' = "for"
            /\ bp' = None
            /\ UNCHANGED tree
    /\ UNCHANGED <<state, num, heap, current, leaf, sim, player_num, placed,
                   rollout_result, expanded, rollouts, ret, err>>

\* one pass of the while loop of back_propagate, or its exit
back_propagate ==
    /\ pc = "backprop"
    /\ IF bp # None
       THEN /\ tree' = [tree EXCEPT ![bp] = credit(@, rollout_result)]
            /\ bp' = tree[bp].parent
            /\ UNCHANGED <<pc, num_iter, backprops>>
       ELSE /\ backprops' = backprops + 1
            /\ num_iter' = num_iter + 1
            /\ pc' = "for"
            /\ UNCHANGED <<tree, bp>>
    /\ UNCHANGED <<state, num, heap, current, leaf, sim, player_num, placed,
                   rollout_result, expanded, rollouts, ret, err>>

\* lines 338-341: choose the most visited child of root and return its move
decide ==
    /\ pc = "decide"
    /\ IF tree[Root].children = <<>>
       THEN /\ err' = "IndexError"
            /\ pc' = "error"
            /\ UNCHANGED ret
       ELSE /\ ret' = find_comp_move(BoardOf(tree, heap, Root),
                                     heap[calc_highest_visits(tree, Root)])
            /\ pc' = "done"
            /\ UNCHANGED err
    /\ UNCHANGED <<state, num, heap, tree, num_iter, current, leaf, sim,
                   player_num, placed, rollout_result, bp, expanded, rollouts,
                   backprops>>

Next ==
    \/ for_loop
    \/ traverse
    \/ simulate
    \/ expand_and_simulate
    \/ rollout_place
    \/ rollout_return
    \/ back_propagate
    \/ decide

Spec == Init /\ [][Next]_vars

-----------------------------------------------------------------------------
(* Properties *)

\* cells in which two boards differ
Differ(a, b) == {c \in Cells : a[c[1]][c[2]] # b[c[1]][c[2]]}

\* C1: on a board with at least one empty cell make_comp_move raises no
\* exception, and what it returns is a pair (row, col) of 0..2 naming a cell
\* that is empty in the input board, never find_comp_move's (-1, -1).
C1_ReturnsEmptyCell ==
    EmptyCells(state) # {} =>
        /\ pc # "error"
        /\ pc = "done" =>
              /\ ret \in Cells
              /\ ret # <<-1, -1>>
              /\ state[ret[1]][ret[2]] = X

C1_Witness ==
    /\ pc = "done"
    /\ Cardinality(EmptyCells(state)) >= 3
    /\ ret \in EmptyCells(state)

\* C2: on a board with exactly one empty cell make_comp_move returns the
\* coordinates of that cell, whatever the rollouts gave.
C2_OnlyCellReturned ==
    (pc = "done" /\ Cardinality(EmptyCells(state)) = 1) =>
        EmptyCells(state) = {ret}

C2_Witness ==
    /\ pc = "done"
    /\ EmptyCells(state) = {<<0, 2>>}
    /\ ret = <<0, 2>>

\* positions of root's children that have the highest visits and are
\* earlier in child order than any other child with as many
FirstMostVisited ==
    {i \in 1..Len(tree[Root].children) :
        /\ \A j \in 1..Len(tree[Root].children) :
              tree[tree[Root].children[j]].visits
                 <= tree[tree[Root].children[i]].visits
        /\ \A j \in 1..(i - 1) :
              tree[tree[Root].children[j]].visits
                 < tree[tree[Root].children[i]].visits}

\* C3: the move returned is the one cell in which root's board differs from
\* the board of the most visited child of root, the earliest such child in
\* child order when several have the highest visits.
C3_MostVisitedChildMove ==
    pc = "done" =>
        \E i \in FirstMostVisited :
            Differ(BoardOf(tree, heap, Root),
                   BoardOf(tree, heap, tree[Root].children[i])) = {ret}

\* two children share the highest visits and the move is the earlier one's
C3_Witness ==
    /\ pc = "done"
    /\ \E i \in FirstMostVisited :
          /\ Differ(BoardOf(tree, heap, Root),
                    BoardOf(tree, heap, tree[Root].children[i])) = {ret}
          /\ \E j \in (i + 1)..Len(tree[Root].children) :
                tree[tree[Root].children[j]].visits
                   = tree[tree[Root].children[i]].visits

RECURSIVE Depth(_, _)
\* number of parent links from node n up to root
Depth(t, n) == IF t[n].parent = None THEN 0 ELSE 1 + Depth(t, t[n].parent)

\* Steps that make_comp_move can still take, bounded from above: every
\* step of the search lowers this number.
Measure ==
    50 * (NumIter - num_iter)
      + CASE pc = "for"      -> 40
          [] pc = "traverse" -> 39 - Depth(tree, current)
          [] pc = "selected" -> 25
          [] pc = "rollout"  -> 12 + Cardinality(EmptyCells(heap[sim]))
          [] pc = "backprop" -> IF bp = None THEN 1
                                ELSE 2 + Depth(tree, bp)
          [] pc = "decide"   -> 1
          [] OTHER           -> 0

\* C4: on a board without an empty cell make_comp_move returns no
\* coordinate: it keeps running (each step closer to its end) until it ends
\* with an IndexError, which happens before the loop is left (expand leaves
\* root without children and children[0] is read).
C4_TerminalBoardFails ==
    /\ [](EmptyCells(state) = {} =>
            /\ ret = NoMove
            /\ pc \notin {"done", "decide"}
            /\ pc = "error" => err = "IndexError"
            /\ pc # "error" => ENABLED <<Next>>_vars)
    /\ [][EmptyCells(state) = {} => Measure' < Measure]_vars

C4_Witness ==
    /\ EmptyCells(state) = {}
    /\ pc = "error"
    /\ err = "IndexError"
    /\ ret = NoMove
    /\ tree[Root].children = <<>>

\* C5: on a board with an empty cell make_comp_move terminates with a move:
\* it is never stuck and raises nothing, every step brings it closer to its
\* end, every iteration makes one rollout and one backpropagation, a rollout
\* places at most as many marks as its starting board has empty cells, and
\* the move is returned after exactly NumIter iterations.  (A rollout that
\* draws occupied cells for ever is not a step: while the loop of rollout
\* runs an empty cell exists, so a placement is always possible.  traverse
\* and the branch at line 329 have a case for every state, the other steps
\* are tested for being possible.)
C5_Terminates ==
    /\ [](EmptyCells(state) # {} =>
            /\ pc # "error"
            /\ pc \notin {"done", "traverse", "selected"} =>
                  ENABLED <<for_loop \/ rollout_place \/ rollout_return
                              \/ back_propagate \/ decide>>_vars
            /\ backprops = num_iter
            /\ rollouts = num_iter + (IF pc = "backprop" THEN 1 ELSE 0)
            /\ pc = "rollout" =>
                  /\ placed <= Cardinality(EmptyCells(BoardOf(tree, heap, leaf)))
                  /\ placed + Cardinality(EmptyCells(heap[sim]))
                        = Cardinality(EmptyCells(BoardOf(tree, heap, leaf)))
            /\ pc = "done" =>
                  /\ num_iter = NumIter
                  /\ rollouts = NumIter
                  /\ backprops = NumIter
                  /\ ret \in Cells)
    /\ [][EmptyCells(state) # {} => Measure' < Measure]_vars

\* the last iteration's rollout filled a board that had three empty cells
C5_Witness ==
    /\ pc = "backprop"
    /\ num_iter = NumIter - 1
    /\ rollouts = NumIter
    /\ placed = 3
    /\ Cardinality(EmptyCells(BoardOf(tree, heap, leaf))) = 3

\* C6: the board a node holds never changes once the node exists (expand
\* and rollout write to copies only), and root's board, the caller's list,
\* always equals the board that was passed in.
C6_BoardsNeverChange ==
    /\ [][\A n \in DOMAIN tree :
             BoardOf(tree', heap', n) = BoardOf(tree, heap, n)]_vars
    /\ [](BoardOf(tree, heap, Root) = state)

\* a rollout from a child of root has placed two marks on its copy
C6_Witness ==
    /\ pc = "rollout"
    /\ placed >= 2
    /\ leaf # Root
    /\ sim # tree[leaf].game_state
    /\ heap[sim] # BoardOf(tree, heap, leaf)
    /\ BoardOf(tree, heap, Root) = state

\* C7 (as claimed): every node, root included, has is_end_state true exactly
\* when its board is a win for its mover or has no empty cell.
C7_EndStateFlag ==
    \A n \in DOMAIN tree :
        tree[n].is_end_state <=>
            \/ check_for_win(BoardOf(tree, heap, n), tree[n].player)
            \/ check_for_draw(BoardOf(tree, heap, n))

\* the children of node n play each empty cell of n's board exactly once
ChildrenEnumerateMoves(n) ==
    LET b == BoardOf(tree, heap, n)
        ch == tree[n].children
    IN  /\ Len(ch) = Cardinality(EmptyCells(b))
        /\ \A c \in EmptyCells(b) :
              Cardinality({i \in 1..Len(ch) :
                              Differ(b, BoardOf(tree, heap, ch[i])) = {c}}) = 1

C9_UCB1Defined ==
    /\ err # "ArithmeticError"
    /\ ( /\ pc = "traverse"
         /\ tree[current].children # <<>>
         /\ \A i \in 1..Len(tree[current].children) :
               tree[tree[current].children[i]].visits # 0 )
       => /\ tree[current].visits >= 1
          /\ \A i \in 1..Len(tree[current].children) :
                /\ tree[tree[current].children[i]].visits >= 1
                /\ tree[tree[current].children[i]].parent = current

\* the children of a node below root are being scored
C9_Witness ==
    /\ pc = "traverse"
    /\ current # Root
    /\ Len(tree[current].children) >= 2
    /\ \A i \in 1..Len(tree[current].children) :
          UCB1Defined(tree, tree[current].children[i])

\* C10: every node has 0 <= wins <= visits (wins2 is twice wins).
C10_WinsAtMostVisits ==
    \A n \in DOMAIN tree :
        /\ tree[n].wins2 >= 0
        /\ tree[n].wins2 <= 2 * tree[n].visits

\* one node was credited a win on each visit, another one holds a draw
C10_Witness ==
    /\ \E n \in DOMAIN tree :
          tree[n].visits >= 2 /\ tree[n].wins2 = 2 * tree[n].visits
    /\ \E n \in DOMAIN tree : tree[n].wins2 % 2 = 1

RECURSIVE Chain(_, _)
\* the nodes on the parent chain from n up to the root, n and root included
Chain(t, n) == IF n = None THEN {} ELSE {n} \cup Chain(t, t[n].parent)

\* what one backpropagation adds to twice the wins of node n
Gain2(n, result) ==
    IF result = Draw THEN 1
    ELSE IF tree[n].player = result THEN 2
    ELSE 0

\* C11: back_propagate(node, outcome) starts at node, goes from each node to
\* its parent and ends after the root, so it passes every node of the parent
\* chain exactly once; each pass adds 1 to the visits of the node passed and
\* to its wins 1 for a win of its mover, 0.5 for a draw and 0 for a win of
\* the other player, and changes nothing else of the node.
C11_BackPropagate ==
    /\ [][(pc = "rollout" /\ pc' = "backprop") => bp' = leaf]_vars
    /\ [][(pc = "backprop" /\ bp # None) =>
            /\ pc' = "backprop"
            /\ bp' = tree[bp].parent
            /\ tree'[bp] = [tree[bp] EXCEPT
                              !.visits = @ + 1,
                              !.wins2 = @ + Gain2(bp, rollout_result)]
            /\ rollout_result' = rollout_result]_vars
    /\ [][(pc = "backprop" /\ pc' # "backprop") =>
            (bp = None /\ tree' = tree)]_vars
    /\ [][(pc = "backprop" /\ bp # None /\ bp' = None) => bp = Root]_vars
    /\ [](pc = "backprop" /\ bp # None => bp \in Chain(tree, leaf))

\* a backpropagation of a draw from a grandchild of root has passed root
C11_Witness ==
    /\ pc = "backprop"
    /\ bp = None
    /\ Depth(tree, leaf) = 2
    /\ rollout_result = Draw
    /\ tree[leaf].wins2 = 1
    /\ tree[leaf].visits = 1

\* C12: wins and visits of a node change only when back_propagate passes the
\* node, which lies on the parent chain of the simulated node, and then
\* visits grows by one; traverse, expand and rollout leave the wins and
\* visits of every node alone, and a node starts with no wins and no visits.
\* So the visits of a node count the backpropagations that passed it.
C12_OnlyBackPropagateWrites ==
    /\ tree[Root].visits = 0 /\ tree[Root].wins2 = 0
    /\ [][\A n \in DOMAIN tree' :
            IF n \notin DOMAIN tree
            THEN tree'[n].visits = 0 /\ tree'[n].wins2 = 0
            ELSE IF pc = "backprop" /\ bp = n
            THEN /\ n \in Chain(tree, leaf)
                 /\ tree'[n].visits = tree[n].visits + 1
            ELSE /\ tree'[n].visits = tree[n].visits
                 /\ tree'[n].wins2 = tree[n].wins2]_vars

\* an expansion has just made new nodes while older nodes hold visits
C12_Witness ==
    /\ pc = "rollout"
    /\ leaf # current
    /\ tree[leaf].visits = 0
    /\ tree[current].visits >= 1
    /\ \E n \in DOMAIN tree : n # Root /\ n # current /\ tree[n].visits >= 2

\* C13: a node that has a visited child has at least as many visits as any
\* of its children.
C13_ParentVisitsDominate ==
    \A n \in DOMAIN tree :
        \A i \in 1..Len(tree[n].children) :
            tree[tree[n].children[i]].visits <= tree[n].visits

\* a child of a node below root holds all of its parent's visits but one
C13_Witness ==
    \E n \in DOMAIN tree :
        /\ n # Root
        /\ \E i \in 1..Len(tree[n].children) :
              /\ tree[tree[n].children[i]].visits >= 2
              /\ tree[tree[n].children[i]].visits = tree[n].visits - 1

\* C14: traverse returns the node it is given when the node has no children;
\* when a child has no visits it returns the first such child in child
\* order, raising nothing; only when every child has visits does it go down
\* to a child and apply the same rule there.  It starts at root, and the
\* node it returns has no children.
C14_Traverse ==
    /\ [][(pc = "for" /\ pc' = "traverse") => current' = Root]_vars
    /\ [][pc = "traverse" =>
            LET ch == tree[current].children
            IN  IF ch = <<>>
                THEN pc' = "selected" /\ current' = current
                ELSE IF \E i \in 1..Len(ch) : tree[ch[i]].visits = 0
                THEN /\ pc' = "selected"
                     /\ err' = err
                     /\ \E i \in 1..Len(ch) :
                           /\ current' = ch[i]
                           /\ tree[ch[i]].visits = 0
                           /\ \A j \in 1..(i - 1) : tree[ch[j]].visits >= 1
                ELSE /\ pc' = "traverse"
                     /\ \E i \in 1..Len(ch) : current' = ch[i]]_vars
    /\ [](pc = "selected" => tree[current].children = <<>>)

\* traverse went down two levels and returned a child that is not the
\* first child of its parent
C14_Witness ==
    /\ pc = "selected"
    /\ Depth(tree, current) = 2
    /\ tree[current].visits = 0
    /\ tree[tree[current].parent].children[1] # current
    /\ tree[current].children = <<>>

\* position of a cell in row-major order
CellIndex(c) == 3 * c[1] + c[2]

\* the children of node n are as expand is claimed to make them
ExpandedAsClaimed(n) ==
    LET b == BoardOf(tree, heap, n)
        ch == tree[n].children
        cell(i) == CHOOSE c \in Cells :
                      c \in Differ(b, BoardOf(tree, heap, ch[i]))
    IN  /\ Len(ch) = Cardinality(EmptyCells(b))
        /\ \A i \in 1..Len(ch) :
              /\ Cardinality(Differ(b, BoardOf(tree, heap, ch[i]))) = 1
              /\ b[cell(i)[1]][cell(i)[2]] = X
              /\ BoardOf(tree, heap, ch[i])[cell(i)[1]][cell(i)[2]]
                    = tree[ch[i]].player
              /\ tree[ch[i]].player \in {1, 2}
              /\ tree[ch[i]].player # tree[n].player
              /\ tree[ch[i]].parent = n
              /\ \A j \in 1..(i - 1) : CellIndex(cell(j)) < CellIndex(cell(i))

\* C15: expand of a node whose board has k empty cells appends exactly k
\* children, new nodes, to the node's empty child list, in row-major order
\* of the cell played; a child's board differs from the parent's in one
\* cell, which was empty and now holds the child's mover; the child's mover
\* is the other player; the child's parent is the expanded node.
C15_Expand ==
    /\ [][expanded' # expanded =>
            LET k == Cardinality(EmptyCells(BoardOf(tree, heap, current)))
            IN  /\ Len(tree') = Len(tree) + k
                /\ tree[current].children = <<>>
                /\ tree'[current].children = [i \in 1..k |-> Len(tree) + i]
                /\ BoardOf(tree', heap', current) = BoardOf(tree, heap, current)]_vars
    /\ [](\A i \in 1..Len(expanded) : ExpandedAsClaimed(expanded[i]))

\* a node below root with three empty cells has been expanded
C15_Witness ==
    \E i \in 1..Len(expanded) :
        /\ expanded[i] # Root
        /\ Len(tree[expanded[i]].children) = 3
        /\ ExpandedAsClaimed(expanded[i])

\* C16: rollout starts from a copy of the board and from the given player;
\* every placement is made while the board is neither a win of the last
\* mover nor full, changes one cell, an empty one, and gives it to the other
\* player than the last mover; rollout returns only from a board that is a
\* win of the last mover or full, and returns the last mover if the board
\* holds a line of that player (full or not) and the draw value otherwise.
C16_Rollout ==
    /\ [][(pc # "rollout" /\ pc' = "rollout") =>
            /\ player_num' = tree'[leaf'].player
            /\ heap'[sim'] = BoardOf(tree', heap', leaf')
            /\ placed' = 0]_vars
    /\ [][(pc = "rollout" /\ pc' = "rollout" /\ heap'[sim] # heap[sim]) =>
            /\ ~ check_for_win(heap[sim], player_num)
            /\ EmptyCells(heap[sim]) # {}
            /\ player_num \in {1, 2} /\ player_num' \in {1, 2}
            /\ player_num' # player_num
            /\ placed' = placed + 1
            /\ \E c \in EmptyCells(heap[sim]) :
                  /\ Differ(heap[sim], heap'[sim]) = {c}
                  /\ heap'[sim][c[1]][c[2]] = player_num']_vars
    /\ [][(pc = "rollout" /\ pc' # "rollout") =>
            /\ check_for_win(heap[sim], player_num)
                  \/ EmptyCells(heap[sim]) = {}
            /\ rollout_result' # None
            /\ rollout_result' =
                  IF check_for_win(heap[sim], player_num)
                  THEN player_num ELSE Draw]_vars

\* a rollout of three placements returned the last mover from a full board
C16_Witness ==
    /\ pc = "backprop"
    /\ bp = leaf
    /\ placed = 3
    /\ Cardinality(EmptyCells(BoardOf(tree, heap, leaf))) = 3
    /\ rollout_result = player_num
    /\ rollout_result # tree[leaf].player

\* C17: while a child of a node has no visits, no child of the node has more
\* than one visit or has children, and the visited children are the first
\* ones in child order; and when an iteration that expanded a node is over,
\* the node's first child has one visit and its other children have none.
C17_ChildrenVisitedInOrder ==
    /\ \A n \in DOMAIN tree :
          LET ch == tree[n].children
          IN  (\E i \in 1..Len(ch) : tree[ch[i]].visits = 0) =>
                 \A j \in 1..Len(ch) :
                    /\ tree[ch[j]].visits <= 1
                    /\ tree[ch[j]].children = <<>>
                    /\ tree[ch[j]].visits = 1 =>
                          \A i \in 1..(j - 1) : tree[ch[i]].visits = 1
    /\ (pc = "for" /\ num_iter >= 1 /\ leaf # current) =>
          LET ch == tree[current].children
          IN  /\ expanded # <<>>
              /\ expanded[Len(expanded)] = current
              /\ ch # <<>>
              /\ leaf = ch[1]
              /\ tree[ch[1]].visits = 1
              /\ \A i \in 2..Len(ch) : tree[ch[i]].visits = 0

\* of the three children of a node below root the first two have been
\* visited once, the last one not yet
C17_Witness ==
    \E n \in DOMAIN tree :
        /\ n # Root
        /\ Len(tree[n].children) = 3
        /\ \A i \in 1..2 : tree[tree[n].children[i]].visits = 1
        /\ tree[tree[n].children[3]].visits = 0

\* C18: when every child of the current node has visits, traverse goes down
\* to the child with the largest score wins/visits + 1.4 *
\* sqrt(log2(parent.visits) / visits), the earliest such child in child order
\* (scores in fixed point, the square root checked by its bracket).
C18_DescendsToBestUCB1 ==
    [][(pc = "traverse" /\ pc' = "traverse") =>
         LET ch == tree[current].children
         IN  /\ \A j \in 1..Len(ch) :
                   LET n == tree[ch[j]].visits
                       q == (Log2e4[tree[current].visits] * 10000) \div n
                       r == ISqrt(q)
                   IN  /\ n >= 1
                       /\ r * r <= q /\ q < (r + 1) * (r + 1)
                       /\ calculate_UCB1(tree, ch[j])
                             = (tree[ch[j]].wins2 * 10000) \div (2 * n)
                                  + (14 * r) \div 10
             /\ \E i \in 1..Len(ch) :
                   /\ current' = ch[i]
                   /\ \A j \in 1..Len(ch) :
                         calculate_UCB1(tree, ch[j]) <= calculate_UCB1(tree, ch[i])
                   /\ \A j \in 1..(i - 1) :
                         calculate_UCB1(tree, ch[j]) < calculate_UCB1(tree, ch[i])]_vars

\* traverse went down to a child that is not the first one and that a later
\* child equals in score
C18_Witness ==
    /\ pc = "traverse"
    /\ current # Root
    /\ LET ch == tree[tree[current].parent].children
       IN  /\ ch[1] # current
           /\ \E j \in 1..Len(ch) :
                 /\ ch[j] > current
                 /\ calculate_UCB1(tree, ch[j]) = calculate_UCB1(tree, current)

RECURSIVE SumVisits(_, _)
\* visits of the first k children of node n, added up
SumVisits(n, k) ==
    IF k = 0 THEN 0
    ELSE tree[tree[n].children[k]].visits + SumVisits(n, k - 1)

\* C19: on a board with an empty cell, whenever no backpropagation is under
\* way (so after every completed iteration), every node that has children
\* has one visit more than its children together, and root has as many
\* visits as iterations have been completed.
C19_VisitsAddUp ==
    (EmptyCells(state) # {} /\ pc # "backprop") =>
        /\ tree[Root].visits = num_iter
        /\ \A n \in DOMAIN tree :
              tree[n].children # <<>> =>
                  tree[n].visits
                     = 1 + SumVisits(n, Len(tree[n].children))

\* all iterations are done and a node below root has children
C19_Witness ==
    /\ pc = "done"
    /\ tree[Root].visits = NumIter
    /\ \E n \in DOMAIN tree :
          /\ n # Root
          /\ Len(tree[n].children) >= 2
          /\ tree[n].visits >= 3
          /\ tree[n].visits = 1 + SumVisits(n, Len(tree[n].children))

====
